---------------------------- MODULE Spec2Model ----------------------------
(***************************************************************************)
(* Client-side proxy layer of playwright-python.                           *)
(*                                                                         *)
(*   Spec      the scoped event wait of playwright/async_base.py           *)
(*             (AsyncEventInfo, AsyncEventContextManager, expect_event)    *)
(*             run by one asyncio event loop;                              *)
(*   SpecElem  the ElementHandle proxy operations of                       *)
(*             playwright/element_handle.py and the two argument           *)
(*             normalisers convert_select_option_values and                *)
(*             normalize_file_payloads.                                    *)
(***************************************************************************)
EXTENDS Integers, Sequences, FiniteSets, TLC

VARIABLES
    \* ---- the scoped wait (async_base.py) ----
    pc,          \* where the caller's coroutine is
    event,       \* expect_event's event argument
    predicate,   \* expect_event's predicate argument
    timeout,     \* expect_event's timeout argument: <<>> is None, <<t>> is t
    info_value,  \* AsyncEventInfo._value
    waiter,      \* AsyncEventInfo._future: the task around wait_for_event
    timers,      \* the deadline timers armed on the loop
    nTasks,      \* tasks created for the wait
    bodyExc,     \* the exception the scope body left with
    outcome,     \* what the caller of the scope observes
    reads,       \* the values the reads of AsyncEventInfo.value returned
    nEmits,      \* events emitted so far
    emittedMatch,\* a matching event was emitted after entry, before any timeout
    \* ---- the ElementHandle proxy (element_handle.py) ----
    call,        \* the last proxy operation called, with its arguments
    sent,        \* the requests that call put on the channel
    result       \* what that call returned or raised

waitVars == <<pc, event, predicate, timeout, info_value, waiter, timers, nTasks,
              bodyExc, outcome, reads, nEmits, emittedMatch>>
elemVars == <<call, sent, result>>
vars == <<pc, event, predicate, timeout, info_value, waiter, timers, nTasks,
          bodyExc, outcome, reads, nEmits, emittedMatch, call, sent, result>>

(***************************************************************************)
(* Bounds of the model.                                                    *)
(***************************************************************************)
MaxEmits == 2
MaxReads == 3
MaxValues == 3
MaxFiles == 2
MaxBytes == 3
MaxListBytes == 1

(***************************************************************************)
(* Values.                                                                 *)
(***************************************************************************)
None == [kind |-> "none", v |-> 0]

\* Event payloads: no payload, a falsy scalar, a truthy scalar, an impl object.
Payloads ==
    {None, [kind |-> "scalar", v |-> 0], [kind |-> "scalar", v |-> 1],
     [kind |-> "impl", v |-> 7]}

Events == {"load", "close"}
Predicates == {"none", "isImpl"}
Timeouts == {<<>>, <<0>>, <<100>>}

\* Python truthiness of a payload: `not x`.
Falsy(x) == x.kind = "none" \/ (x.kind = "scalar" /\ x.v = 0)

\* mapping.from_maybe_impl: an impl object becomes its API wrapper, anything
\* else passes unchanged.
FromMaybeImpl(x) == IF x.kind = "impl" THEN [kind |-> "api", v |-> x.v] ELSE x

NoErr == [kind |-> "none", event |-> "", deadline |-> 0]
ActionError == [kind |-> "ActionError", event |-> "", deadline |-> 0]

DefaultTimeout == 30000
NoDeadline == 0

\* `timeout or 30000`
Deadline(t) == IF t = <<>> \/ t[1] = 0 THEN DefaultTimeout ELSE t[1]

\* The event name as the f-string f'... "${event}"' renders it between the quotes.
EventInMessage(e) == "$" \o e

\* WaitHelper.reject_on_timeout(timeout, message): arms a timer that rejects the
\* wait with TimeoutError, unless the timeout is "no deadline".
RejectOnTimeout(ts, d, name) ==
    IF d = NoDeadline THEN ts
    ELSE Append(ts, [deadline |-> d, event |-> name, active |-> TRUE])

\* The listener of wait_for_event: `not predicate or predicate(e)`.
PredOK(p, payload) == p = "none" \/ payload.kind = "impl"

NoWaiter == [state |-> "none", result |-> None, error |-> NoErr]

WaiterDone(w) == w.state \in {"resolved", "timedout"}

\* The caller's coroutine is suspended (or past the scope) and the loop runs.
LoopRuns == pc \in {"body_await", "body_value", "exit_await", "done"}

(***************************************************************************)
(* AsyncEventInfo.value, once the await of the future does not suspend:    *)
(* cached is _value, w the finished waiter, n the tasks created so far.    *)
(***************************************************************************)
ValueGetLazy(cached, w, n) ==
    IF ~Falsy(cached)
    THEN [err |-> NoErr, value |-> cached, cache |-> cached, tasks |-> n]
    ELSE IF w.state = "timedout"
    THEN [err |-> w.error, value |-> None, cache |-> cached, tasks |-> n + 1]
    ELSE [err |-> NoErr, value |-> FromMaybeImpl(w.result),
          cache |-> FromMaybeImpl(w.result), tasks |-> n + 1]

ValueGet(cached, w, n) ==
    IF ~Falsy(cached)
    THEN [err |-> NoErr, value |-> cached, cache |-> cached, tasks |-> n]
    ELSE IF w.state = "timedout"
    THEN [err |-> w.error, value |-> None, cache |-> cached, tasks |-> n]
    ELSE [err |-> NoErr, value |-> FromMaybeImpl(w.result),
          cache |-> FromMaybeImpl(w.result), tasks |-> n]

\* Whether reading value suspends: _value is falsy and the future is pending.
ValueSuspends == Falsy(info_value) /\ ~WaiterDone(waiter)

\* __aexit__ awaits the value whatever exception the body left with.
AexitSkipsOnError(exc) == exc.kind = "none"

AexitAwaits(exc) == TRUE

(***************************************************************************)
(* ElementHandle: the operations and the method each sends on the channel. *)
(***************************************************************************)
\* The operations that are one channel.send of their arguments and nothing else.
SimpleOps ==
    {"ownerFrame", "contentFrame", "getAttribute", "textContent", "innerText",
     "innerHTML", "dispatchEvent", "scrollIntoViewIfNeeded", "hover", "click",
     "dblclick", "fill", "selectText", "focus", "type", "press", "check",
     "uncheck", "boundingBox", "screenshot", "querySelector", "querySelectorAll",
     "evalOnSelector", "evalOnSelectorAll"}

\* The first argument of self._channel.send in each operation.
WireMethod(op) ==
    CASE op = "ownerFrame" -> "ownerFrame"
      [] op = "contentFrame" -> "contentFrame"
      [] op = "getAttribute" -> "getAttribute"
      [] op = "textContent" -> "textContent"
      [] op = "innerText" -> "innerText"
      [] op = "innerHTML" -> "innerHTML"
      [] op = "dispatchEvent" -> "dispatchEvent"
      [] op = "scrollIntoViewIfNeeded" -> "scrollIntoViewIfNeeded"
      [] op = "hover" -> "hover"
      [] op = "click" -> "click"
      [] op = "dblclick" -> "dblclick"
      [] op = "selectOption" -> "selectOption"
      [] op = "fill" -> "fill"
      [] op = "selectText" -> "selectText"
      [] op = "setInputFiles" -> "setInputFiles"
      [] op = "focus" -> "focus"
      [] op = "type" -> "text"
      [] op = "press" -> "press"
      [] op = "check" -> "check"
      [] op = "uncheck" -> "uncheck"
      [] op = "boundingBox" -> "boundingBox"
      [] op = "screenshot" -> "screenshot"
      [] op = "querySelector" -> "querySelector"
      [] op = "querySelectorAll" -> "querySelectorAll"
      [] op = "evalOnSelector" -> "evalOnSelector"
      [] op = "evalOnSelectorAll" -> "evalOnSelectorAll"

\* A Python dict: a function from its keys.  {} is the empty function.
EmptyDict == <<>>

\* {**a, **b}
Merge(a, b) ==
    [k \in (DOMAIN a) \cup (DOMAIN b) |-> IF k \in DOMAIN b THEN b[k] ELSE a[k]]

\* locals_to_params for an operation whose only optional argument given is
\* timeout: the arguments that are not None.
TimeoutParams(t) == IF t = <<>> THEN EmptyDict ELSE [timeout |-> t[1]]

\* All sequences over S of length at most n.
SeqsUpTo(S, n) == UNION {[1..k -> S] : k \in 0..n}

(***************************************************************************)
(* The values to select: a label string, an ElementHandle, or an option    *)
(* descriptor (a dict), alone or in a list, or None.                       *)
(***************************************************************************)
Str(s) == [kind |-> "str", v |-> s]
Handle(g) == [kind |-> "handle", guid |-> g]
Dict(k, x) == [kind |-> "dict", key |-> k, val |-> x]
Channel(g) == [kind |-> "channel", guid |-> g]

SelectElems ==
    {Str("red"), Str("blue"), Handle("el-1"), Handle("el-2"),
     Dict("value", Str("red")), Dict("label", Str("Blue"))}

SelectArgs ==
    {[kind |-> "none", v |-> <<>>]}
        \cup {[kind |-> "single", v |-> <<x>>] : x \in SelectElems}
        \cup {[kind |-> "list", v |-> l] : l \in SeqsUpTo(SelectElems, MaxValues)}

\* arg if isinstance(arg, list) else [arg]
ArgList(arg) == arg.v

\* convert_select_option_values.  Only the first element decides the shape; in the
\* handle branch `e._channel` raises AttributeError on an element that is no handle.
ConvertNoLabelBranch(arg) ==
    IF arg.kind = "none" THEN [err |-> "none", value |-> EmptyDict]
    ELSE LET arg_list == ArgList(arg)
         IN  IF Len(arg_list) = 0 THEN [err |-> "none", value |-> EmptyDict]
             ELSE IF arg_list[1].kind = "handle"
             THEN IF \E i \in DOMAIN arg_list : arg_list[i].kind # "handle"
                  THEN [err |-> "AttributeError", value |-> EmptyDict]
                  ELSE [err |-> "none",
                        value |-> [elements |->
                                     [i \in DOMAIN arg_list |-> Channel(arg_list[i].guid)]]]
             ELSE [err |-> "none", value |-> [options |-> arg_list]]

ConvertSelectOptionValues(arg) ==
    IF arg.kind = "none" THEN [err |-> "none", value |-> EmptyDict]
    ELSE LET arg_list == ArgList(arg)
         IN  IF Len(arg_list) = 0 THEN [err |-> "none", value |-> EmptyDict]
             ELSE IF arg_list[1].kind = "handle"
             THEN IF \E i \in DOMAIN arg_list : arg_list[i].kind # "handle"
                  THEN [err |-> "AttributeError", value |-> EmptyDict]
                  ELSE [err |-> "none",
                        value |-> [elements |->
                                     [i \in DOMAIN arg_list |-> Channel(arg_list[i].guid)]]]
             ELSE IF arg_list[1].kind = "str"
             THEN [err |-> "none",
                   value |-> [options |->
                                [i \in DOMAIN arg_list |-> Dict("value", arg_list[i])]]]
             ELSE [err |-> "none", value |-> [options |-> arg_list]]

(***************************************************************************)
(* Files: a path (with the bytes open(path).read() returns, or no such     *)
(* file) or an in-memory payload whose buffer is bytes or already text.    *)
(***************************************************************************)
ByteVals == {0, 77, 255}
ByteStrings == SeqsUpTo(ByteVals, MaxBytes)

\* base64.b64encode: three bytes become four 6-bit characters, given by their
\* index in the base64 alphabet; Pad is "=".
Pad == 64

RECURSIVE B64Encode(_)
B64Encode(bs) ==
    IF Len(bs) = 0 THEN <<>>
    ELSE IF Len(bs) = 1
    THEN <<bs[1] \div 4, (bs[1] % 4) * 16, Pad, Pad>>
    ELSE IF Len(bs) = 2
    THEN <<bs[1] \div 4, (bs[1] % 4) * 16 + bs[2] \div 16, (bs[2] % 16) * 4, Pad>>
    ELSE <<bs[1] \div 4, (bs[1] % 4) * 16 + bs[2] \div 16,
           (bs[2] % 16) * 4 + bs[3] \div 64, bs[3] % 64>>
           \o B64Encode(SubSeq(bs, 4, Len(bs)))

\* base64.b64decode of well-formed base64 text.
RECURSIVE B64Decode(_)
B64Decode(cs) ==
    IF Len(cs) < 4 THEN <<>>
    ELSE LET b1 == cs[1] * 4 + cs[2] \div 16
             b2 == (cs[2] % 16) * 16 + cs[3] \div 4
             b3 == (cs[3] % 4) * 64 + cs[4]
         IN  IF cs[3] = Pad THEN <<b1>>
             ELSE IF cs[4] = Pad THEN <<b1, b2>>
             ELSE <<b1, b2, b3>> \o B64Decode(SubSeq(cs, 5, Len(cs)))

Bytes(bs) == [kind |-> "bytes", data |-> bs]
Text(cs) == [kind |-> "str", data |-> cs]

Paths ==
    {[dir |-> "dir/", stem |-> "a", ext |-> ".txt"],
     [dir |-> "", stem |-> "blob", ext |-> ""]}
MissingPath == [dir |-> "", stem |-> "gone", ext |-> ".png"]

\* os.path.basename
Basename(p) == p.stem \o p.ext

\* mimetypes.guess_type(path)[0]: by extension, None (here "") when unknown.
GuessType(p) ==
    CASE p.ext = ".txt" -> "text/plain"
      [] p.ext = ".png" -> "image/png"
      [] OTHER -> ""

\* A path argument, with what the file system holds for it.
PathItem(p, bs) == [path |-> p, exists |-> TRUE, data |-> bs]
\* A FilePayload dict.
Payload(n, m, b) == [name |-> n, mimeType |-> m, buffer |-> b]
\* isinstance(item, str)
IsPath(item) == "path" \in DOMAIN item

\* The items whose bytes are drawn from B: existing paths, a missing path,
\* payloads with raw bytes, a payload whose buffer is text already.
ItemsOver(B) ==
    {PathItem(p, bs) : p \in Paths, bs \in B}
        \cup {[path |-> MissingPath, exists |-> FALSE, data |-> <<>>]}
        \cup {Payload("note.txt", "text/plain", Bytes(bs)) : bs \in B}
        \cup {Payload("note.txt", "text/plain", Text(B64Encode(<<255>>)))}

FileItems == ItemsOver(ByteStrings)

\* A single item holds up to MaxBytes bytes; the items of a list hold up to
\* MaxListBytes each.
FileArgs ==
    {[kind |-> "single", v |-> <<x>>] : x \in FileItems}
        \cup {[kind |-> "list", v |-> l] :
                 l \in SeqsUpTo(ItemsOver(SeqsUpTo(ByteVals, MaxListBytes)), MaxFiles)}

\* One turn of the loop of normalize_file_payloads: the payload appended for item.
\* (The bytes branch also stores the text back into the caller's dict.)
NormalizeItemAsIs(item) ==
    IF IsPath(item)
    THEN Payload(Basename(item.path),
                 IF GuessType(item.path) # "" THEN GuessType(item.path)
                 ELSE "application/octet-stream",
                 Text(B64Encode(item.data)))
    ELSE item

NormalizeItem(item) ==
    IF IsPath(item)
    THEN Payload(Basename(item.path),
                 IF GuessType(item.path) # "" THEN GuessType(item.path)
                 ELSE "application/octet-stream",
                 Text(B64Encode(item.data)))
    ELSE IF item.buffer.kind = "bytes"
    THEN [item EXCEPT !.buffer = Text(B64Encode(item.buffer.data))]
    ELSE item

\* normalize_file_payloads: open() raises FileNotFoundError on a missing path.
NormalizeFilePayloads(files) ==
    LET file_list == ArgList(files)
    IN  IF \E i \in DOMAIN file_list :
              IsPath(file_list[i]) /\ ~file_list[i].exists
        THEN [err |-> "FileNotFoundError", value |-> <<>>]
        ELSE [err |-> "none",
              value |-> [i \in DOMAIN file_list |-> NormalizeItem(file_list[i])]]

(***************************************************************************)
(* Initial state: no scope opened, no proxy operation called.              *)
(***************************************************************************)
NoCall == [op |-> "none", arg |-> <<>>]
NoResult == [kind |-> "none", value |-> <<>>]

InitWait ==
    /\ pc = "idle"
    /\ event = "load"
    /\ predicate = "none"
    /\ timeout = <<>>
    /\ info_value = None
    /\ waiter = NoWaiter
    /\ timers = <<>>
    /\ nTasks = 0
    /\ bodyExc = NoErr
    /\ outcome = NoErr
    /\ reads = <<>>
    /\ nEmits = 0
    /\ emittedMatch = FALSE

InitElem ==
    /\ call = NoCall
    /\ sent = <<>>
    /\ result = NoResult

Init == InitWait /\ InitElem

(***************************************************************************)
(* expect_event(event, predicate, timeout) and __aenter__: constructs the  *)
(* AsyncEventInfo (arms the timer, creates the waiter task) and returns it *)
(* without suspending; the scope body runs next.                           *)
(***************************************************************************)
ExpectEvent(e, p, t) ==
    /\ pc = "idle"
    /\ event' = e
    /\ predicate' = p
    /\ timeout' = t
    /\ info_value' = None
    /\ timers' = RejectOnTimeout(timers, Deadline(t), EventInMessage(e))
    /\ waiter' = [state |-> "scheduled", result |-> None, error |-> NoErr]
    /\ nTasks' = nTasks + 1
    /\ pc' = "body"
    /\ UNCHANGED <<bodyExc, outcome, reads, nEmits, emittedMatch>>
    /\ UNCHANGED elemVars

\* The emitter calls its listeners: the waiter's listener exists once the waiter
\* task has run wait_for_event up to its await. The first match resolves the
\* waiter and cancels the timer.
Deliver(e, payload) ==
    LET match == e = event /\ PredOK(predicate, payload)
    IN  /\ nEmits' = nEmits + 1
        /\ emittedMatch' = (emittedMatch \/ (match /\ waiter.state # "timedout"))
        /\ IF match /\ waiter.state = "listening"
           THEN /\ waiter' = [waiter EXCEPT !.state = "resolved", !.result = payload]
                /\ timers' = [i \in DOMAIN timers |-> [timers[i] EXCEPT !.active = FALSE]]
           ELSE UNCHANGED <<waiter, timers>>

\* One read of AsyncEventInfo.value that does not suspend, from the scope body.
BodyValueDone ==
    LET r == ValueGet(info_value, waiter, nTasks)
    IN  /\ info_value' = r.cache
        /\ nTasks' = r.tasks
        /\ IF r.err.kind = "none"
           THEN /\ reads' = Append(reads, r.value)
                /\ pc' = "body"
                /\ UNCHANGED bodyExc
           ELSE /\ bodyExc' = r.err
                /\ pc' = "exit"
                /\ UNCHANGED reads

\* The body emits an event synchronously, before it suspends.
BodyEmit(e, payload) ==
    /\ pc = "body"
    /\ nEmits < MaxEmits
    /\ Deliver(e, payload)
    /\ UNCHANGED <<pc, event, predicate, timeout, info_value, nTasks, bodyExc,
                   outcome, reads>>
    /\ UNCHANGED elemVars

\* The body awaits its triggering action (a proxy operation): it suspends.
BodyAwaitAction ==
    /\ pc = "body"
    /\ pc' = "body_await"
    /\ UNCHANGED <<event, predicate, timeout, info_value, waiter, timers, nTasks,
                   bodyExc, outcome, reads, nEmits, emittedMatch>>
    /\ UNCHANGED elemVars

\* The body reads `await info.value` inside the scope.
BodyReadValue ==
    /\ pc = "body"
    /\ Len(reads) < MaxReads
    /\ IF ValueSuspends
       THEN /\ pc' = "body_value"
            /\ UNCHANGED <<info_value, nTasks, bodyExc, reads>>
       ELSE BodyValueDone
    /\ UNCHANGED <<event, predicate, timeout, waiter, timers, outcome, nEmits,
                   emittedMatch>>
    /\ UNCHANGED elemVars

\* The body ends normally.
BodyReturn ==
    /\ pc = "body"
    /\ pc' = "exit"
    /\ bodyExc' = NoErr
    /\ UNCHANGED <<event, predicate, timeout, info_value, waiter, timers, nTasks,
                   outcome, reads, nEmits, emittedMatch>>
    /\ UNCHANGED elemVars

\* The action fails before suspending (an argument error, say).
BodyRaise ==
    /\ pc = "body"
    /\ pc' = "exit"
    /\ bodyExc' = ActionError
    /\ UNCHANGED <<event, predicate, timeout, info_value, waiter, timers, nTasks,
                   outcome, reads, nEmits, emittedMatch>>
    /\ UNCHANGED elemVars

(***************************************************************************)
(* The event loop, while the caller is suspended.  The waiter task was     *)
(* put on the ready queue at construction, so it runs before anything that *)
(* became ready later: a response, an event from the transport, the timer. *)
(***************************************************************************)
WaiterStart ==
    /\ LoopRuns
    /\ waiter.state = "scheduled"
    /\ waiter' = [waiter EXCEPT !.state = "listening"]
    /\ UNCHANGED <<pc, event, predicate, timeout, info_value, timers, nTasks,
                   bodyExc, outcome, reads, nEmits, emittedMatch>>
    /\ UNCHANGED elemVars

TransportEvent(e, payload) ==
    /\ LoopRuns
    /\ waiter.state # "scheduled"
    /\ nEmits < MaxEmits
    /\ Deliver(e, payload)
    /\ UNCHANGED <<pc, event, predicate, timeout, info_value, nTasks, bodyExc,
                   outcome, reads>>
    /\ UNCHANGED elemVars

TimerFire ==
    /\ LoopRuns
    /\ waiter.state = "listening"
    /\ \E i \in DOMAIN timers :
          /\ timers[i].active
          /\ timers' = [timers EXCEPT ![i].active = FALSE]
          /\ waiter' = [waiter EXCEPT
                          !.state = "timedout",
                          !.error = [kind |-> "TimeoutError",
                                     event |-> timers[i].event,
                                     deadline |-> timers[i].deadline]]
    /\ UNCHANGED <<pc, event, predicate, timeout, info_value, nTasks, bodyExc,
                   outcome, reads, nEmits, emittedMatch>>
    /\ UNCHANGED elemVars

ActionSucceeds ==
    /\ pc = "body_await"
    /\ waiter.state # "scheduled"
    /\ pc' = "body"
    /\ UNCHANGED <<event, predicate, timeout, info_value, waiter, timers, nTasks,
                   bodyExc, outcome, reads, nEmits, emittedMatch>>
    /\ UNCHANGED elemVars

ActionFails ==
    /\ pc = "body_await"
    /\ waiter.state # "scheduled"
    /\ pc' = "exit"
    /\ bodyExc' = ActionError
    /\ UNCHANGED <<event, predicate, timeout, info_value, waiter, timers, nTasks,
                   outcome, reads, nEmits, emittedMatch>>
    /\ UNCHANGED elemVars

\* The body's read of value resumes once the waiter is done.
BodyValueResume ==
    /\ pc = "body_value"
    /\ WaiterDone(waiter)
    /\ BodyValueDone
    /\ UNCHANGED <<event, predicate, timeout, waiter, timers, outcome, nEmits,
                   emittedMatch>>
    /\ UNCHANGED elemVars

(***************************************************************************)
(* __aexit__: `await self._event.value`.  A TimeoutError it raises         *)
(* replaces the body's exception; otherwise the body's exception, if any,  *)
(* propagates.                                                             *)
(***************************************************************************)
AexitDone ==
    LET r == ValueGet(info_value, waiter, nTasks)
    IN  /\ info_value' = r.cache
        /\ nTasks' = r.tasks
        /\ outcome' = IF r.err.kind # "none" THEN r.err
                      ELSE IF bodyExc.kind # "none" THEN bodyExc
                      ELSE [kind |-> "ok", event |-> "", deadline |-> 0]
        /\ pc' = "done"

Aexit ==
    /\ pc = "exit"
    /\ IF ~AexitAwaits(bodyExc)
       THEN /\ outcome' = bodyExc
            /\ pc' = "done"
            /\ UNCHANGED <<info_value, nTasks>>
       ELSE IF ValueSuspends
       THEN /\ pc' = "exit_await"
            /\ UNCHANGED <<info_value, nTasks, outcome>>
       ELSE AexitDone
    /\ UNCHANGED <<event, predicate, timeout, waiter, timers, bodyExc, reads,
                   nEmits, emittedMatch>>
    /\ UNCHANGED elemVars

AexitResume ==
    /\ pc = "exit_await"
    /\ WaiterDone(waiter)
    /\ AexitDone
    /\ UNCHANGED <<event, predicate, timeout, waiter, timers, bodyExc, reads,
                   nEmits, emittedMatch>>
    /\ UNCHANGED elemVars

\* A read of info.value after the scope.
ReadAfter ==
    /\ pc = "done"
    /\ Len(reads) < MaxReads
    /\ ~ValueSuspends
    /\ LET r == ValueGet(info_value, waiter, nTasks)
       IN  /\ info_value' = r.cache
           /\ nTasks' = r.tasks
           /\ reads' = IF r.err.kind = "none" THEN Append(reads, r.value) ELSE reads
           /\ r.err.kind = "none"
    /\ UNCHANGED <<pc, event, predicate, timeout, waiter, timers, bodyExc, outcome,
                   nEmits, emittedMatch>>
    /\ UNCHANGED elemVars

Next ==
    \/ \E e \in Events, p \in Predicates, t \in Timeouts : ExpectEvent(e, p, t)
    \/ \E e \in Events, x \in Payloads : BodyEmit(e, x)
    \/ BodyAwaitAction
    \/ BodyReadValue
    \/ BodyReturn
    \/ BodyRaise
    \/ WaiterStart
    \/ \E e \in Events, x \in Payloads : TransportEvent(e, x)
    \/ TimerFire
    \/ ActionSucceeds
    \/ ActionFails
    \/ BodyValueResume
    \/ Aexit
    \/ AexitResume
    \/ ReadAfter

Spec == Init /\ [][Next]_vars

(***************************************************************************)
(* The ElementHandle operations.  A caller makes one call at a time: the   *)
(* operation encodes its arguments and awaits channel.send, the engine     *)
(* responds, the caller goes on.                                           *)
(***************************************************************************)
Idle == call.op = "none"

\* asElement returns the handle itself; nothing is sent.
AsElement ==
    /\ Idle
    /\ call' = [op |-> "asElement", arg |-> <<>>]
    /\ sent' = <<>>
    /\ result' = [kind |-> "ok", value |-> <<>>]
    /\ UNCHANGED waitVars

\* An operation that is one channel.send.
CallOp(op) ==
    /\ Idle
    /\ call' = [op |-> op, arg |-> <<>>]
    /\ sent' = <<[method |-> WireMethod(op), params |-> EmptyDict]>>
    /\ result' = [kind |-> "pending", value |-> <<>>]
    /\ UNCHANGED waitVars

SelectOption(values, t) ==
    LET params == IF values.kind = "none" THEN TimeoutParams(t)
                  ELSE Merge(TimeoutParams(t), [values |-> values])
        conv == ConvertSelectOptionValues(values)
    IN  /\ Idle
        /\ call' = [op |-> "selectOption", arg |-> values]
        /\ IF "values" \in DOMAIN params
           THEN IF conv.err # "none"
                THEN /\ sent' = <<>>
                     /\ result' = [kind |-> conv.err, value |-> <<>>]
                ELSE /\ sent' = <<[method |-> WireMethod("selectOption"),
                                   params |-> Merge(TimeoutParams(t), conv.value)]>>
                     /\ result' = [kind |-> "pending", value |-> <<>>]
           ELSE /\ sent' = <<[method |-> WireMethod("selectOption"), params |-> params]>>
                /\ result' = [kind |-> "pending", value |-> <<>>]
        /\ UNCHANGED waitVars

SetInputFiles(files, t) ==
    LET norm == NormalizeFilePayloads(files)
    IN  /\ Idle
        /\ call' = [op |-> "setInputFiles", arg |-> files]
        /\ IF norm.err # "none"
           THEN /\ sent' = <<>>
                /\ result' = [kind |-> norm.err, value |-> <<>>]
           ELSE /\ sent' = <<[method |-> WireMethod("setInputFiles"),
                              params |-> Merge(TimeoutParams(t),
                                               [files |-> norm.value])]>>
                /\ result' = [kind |-> "pending", value |-> <<>>]
        /\ UNCHANGED waitVars

\* The engine's response resolves the pending send.
ChannelRespond ==
    /\ result.kind = "pending"
    /\ result' = [kind |-> "ok", value |-> <<>>]
    /\ UNCHANGED <<call, sent>>
    /\ UNCHANGED waitVars

\* The call has returned or raised; the caller is free to make the next one.
Return ==
    /\ ~Idle
    /\ result.kind # "pending"
    /\ call' = NoCall
    /\ sent' = <<>>
    /\ result' = NoResult
    /\ UNCHANGED waitVars

NextElem ==
    \/ AsElement
    \/ Idle /\ \E op \in SimpleOps : CallOp(op)
    \/ Idle /\ \E values \in SelectArgs, t \in {<<>>, <<100>>} : SelectOption(values, t)
    \/ Idle /\ \E files \in FileArgs, t \in {<<>>, <<100>>} : SetInputFiles(files, t)
    \/ ChannelRespond
    \/ Return

SpecElem == Init /\ [][NextElem]_vars

(***************************************************************************)
(* Properties of the scoped wait, checked under Spec.                      *)
(***************************************************************************)
Ok == [kind |-> "ok", event |-> "", deadline |-> 0]

\* C2: a scope whose body causes the matching event to be emitted at any point
\* after the scope is entered (also synchronously, before the body first
\* suspends) and before any timeout ends with that event, not with a timeout.
C2_EmittedEventCompletesScope ==
    (pc = "done" /\ emittedMatch /\ bodyExc.kind = "none") => outcome = Ok

\* C3: the deadline armed is the caller's timeout whenever one is given and 30000
\* only when none is; with the explicit "no deadline" value no timer is armed and
\* the wait never times out.
C3_DeadlineIsCallersTimeout ==
    pc # "idle" =>
        /\ timeout = <<>> => (Len(timers) = 1 /\ timers[1].deadline = DefaultTimeout)
        /\ (timeout # <<>> /\ timeout[1] # NoDeadline) =>
               (Len(timers) = 1 /\ timers[1].deadline = timeout[1])
        /\ timeout = <<NoDeadline>> => (timers = <<>> /\ waiter.state # "timedout")

\* C4: when the action inside the scope failed, the caller observes the action's
\* own failure, never TimeoutError.
C4_ActionFailureNotTimeout ==
    (pc = "done" /\ bodyExc.kind = "ActionError") => outcome.kind = "ActionError"

\* C5: the scope exit returns only once the waiter has resolved, whether the body
\* ended normally or raised, and a waiter resolved with a timeout makes the
\* caller observe that timeout failure.
C5_ExitAwaitsWaiter ==
    pc = "done" =>
        /\ WaiterDone(waiter)
        /\ waiter.state = "timedout" =>
               (outcome.kind = "TimeoutError" /\ outcome = waiter.error)

\* C5 witness: the body raised, the waiter timed out, the exit has returned.
C5_Witness ==
    /\ pc = "done"
    /\ bodyExc.kind = "ActionError"
    /\ waiter.state = "timedout"
    /\ outcome.kind = "TimeoutError"

\* C6: a wait on event E with the caller's deadline D that times out delivers a
\* TimeoutError carrying the event name E and the deadline D.
C6_TimeoutErrorCarriesEventAndDeadline ==
    (pc = "done" /\ outcome.kind = "TimeoutError"
        /\ timeout # <<>> /\ timeout[1] # NoDeadline) =>
            (outcome.event = event /\ outcome.deadline = timeout[1])

\* C10: one waiter task and one timer exist from construction on, whatever number
\* of reads of value follow, and every read returns the same payload, the one
\* the waiter resolved with (mapped to the API), also when it is falsy.
C10_OneWaiterSamePayload ==
    pc # "idle" =>
        /\ nTasks = 1
        /\ Len(timers) = 1
        /\ \A i \in DOMAIN reads :
              waiter.state = "resolved" /\ reads[i] = FromMaybeImpl(waiter.result)

\* C10 witness: two reads or more of a falsy payload, the scope left.
C10_Witness ==
    /\ pc = "done"
    /\ Len(reads) >= 2
    /\ waiter.state = "resolved"
    /\ Falsy(waiter.result)
    /\ reads[1] = waiter.result

(***************************************************************************)
(* Properties of the ElementHandle proxy, checked under SpecElem.          *)
(***************************************************************************)
Sending == result.kind \in {"pending", "ok"}

MixedList(arg) ==
    arg.kind = "list" /\ \E i, j \in DOMAIN arg.v : arg.v[i].kind # arg.v[j].kind

Homogeneous(arg, k) ==
    arg.kind \in {"single", "list"} /\ Len(arg.v) >= 1
        /\ \A i \in DOMAIN arg.v : arg.v[i].kind = k

\* C1: selectOption with a list that mixes labels, handles and descriptors fails
\* with InvalidArgument and sends nothing.
C1_MixedListRejected ==
    (call.op = "selectOption" /\ MixedList(call.arg)) =>
        (result.kind = "InvalidArgument" /\ sent = <<>>)

\* C7: a single value or a homogeneous list is sent in one wire shape, in order:
\* labels as {options: [{value: s}...]}, handles as {elements: [ref...]},
\* descriptors as {options: [descriptor...]}; never both keys at once.
C7_SelectValuesNormalized ==
    (call.op = "selectOption" /\ Len(sent) > 0) =>
        LET p == sent[1].params
            a == call.arg.v
        IN  /\ ~({"elements", "options"} \subseteq DOMAIN p)
            /\ Homogeneous(call.arg, "str") =>
                  /\ "options" \in DOMAIN p
                  /\ DOMAIN p.options = DOMAIN a
                  /\ \A i \in DOMAIN a : p.options[i] = Dict("value", a[i])
            /\ Homogeneous(call.arg, "handle") =>
                  /\ "elements" \in DOMAIN p
                  /\ DOMAIN p.elements = DOMAIN a
                  /\ \A i \in DOMAIN a : p.elements[i] = Channel(a[i].guid)
            /\ Homogeneous(call.arg, "dict") =>
                  /\ "options" \in DOMAIN p
                  /\ p.options = a

\* C7 witness: a list of two different labels was sent.
C7_Witness ==
    /\ call.op = "selectOption"
    /\ Len(sent) = 1
    /\ call.arg.kind = "list"
    /\ Len(call.arg.v) = 2
    /\ Homogeneous(call.arg, "str")
    /\ call.arg.v[1] # call.arg.v[2]

\* C8: every file sent has the shape {name, mimeType, buffer} with a text buffer;
\* for a path the buffer decodes to the file's bytes, the name is the basename and
\* the type follows the extension (application/octet-stream by default); for an
\* in-memory payload with raw bytes the buffer decodes to those bytes.
C8_FilePayloadsRoundTrip ==
    (call.op = "setInputFiles" /\ Sending) =>
        LET fs == sent[1].params.files
            a == call.arg.v
        IN  /\ DOMAIN fs = DOMAIN a
            /\ \A i \in DOMAIN a :
                  /\ DOMAIN fs[i] = {"name", "mimeType", "buffer"}
                  /\ fs[i].buffer.kind = "str"
                  /\ IsPath(a[i]) =>
                        /\ B64Decode(fs[i].buffer.data) = a[i].data
                        /\ fs[i].name = a[i].path.stem \o a[i].path.ext
                        /\ fs[i].mimeType =
                              (IF a[i].path.ext = ".txt" THEN "text/plain"
                               ELSE "application/octet-stream")
                  /\ (~IsPath(a[i]) /\ a[i].buffer.kind = "bytes") =>
                        /\ B64Decode(fs[i].buffer.data) = a[i].buffer.data
                        /\ fs[i].name = a[i].name
                        /\ fs[i].mimeType = a[i].mimeType

\* C8 witness: a path and an in-memory payload of one byte each sent in one list.
C8_Witness ==
    /\ call.op = "setInputFiles"
    /\ result.kind = "ok"
    /\ call.arg.kind = "list"
    /\ Len(call.arg.v) = 2
    /\ IsPath(call.arg.v[1])
    /\ Len(call.arg.v[1].data) = 1
    /\ ~IsPath(call.arg.v[2])
    /\ call.arg.v[2].buffer = Bytes(<<255>>)

\* C9: an operation that reaches the engine sends exactly one request, whose
\* method is the operation's own name.
C9_MethodIsOperationName ==
    (call.op \notin {"none", "asElement"} /\ Sending) =>
        (Len(sent) = 1 /\ sent[1].method = call.op)

=============================================================================
